---- MODULE Spec2Model ----
(***************************************************************************)
(* Route cache and request de-duplication of services/trip_service.py.     *)
(*                                                                         *)
(* The service runs on one asyncio event loop: a coroutine runs without    *)
(* interruption from one suspension point to the next.  In                 *)
(* calculate_cached_route the suspension points are the wait on a key's    *)
(* asyncio.Event (line 227) and the HTTP call made by                      *)
(* calculate_intelligent_route (line 245).  _get_cached_route and          *)
(* _cache_route are declared async but only make blocking Firebase calls,  *)
(* so awaiting them never yields to the loop.  Each action below is one    *)
(* such uninterrupted segment.                                             *)
(***************************************************************************)
EXTENDS Integers, Sequences, FiniteSets, TLC

\* ---------------------------------------------------------------- bounds
NumCallers == 3
MaxTime == 24

\* ------------------------------------------------------------- constants
RouteCacheHours == 24

\* Calls of calculate_cached_route, numbered in order of arrival.
Callers == 1..NumCallers
\* The calls of a burst of requests: one more than Callers.
AllCallers == 1..(NumCallers + 1)
\* Every piece of state below is per cache key, and no operation but
\* clear_route_cache touches more than one key, so one key is modelled.
Keys == {"route_key"}
\* Mutant of line 248: every status is stored.
CacheableStatuses_all == {"success", "estimated", "basic"}
\* The statuses calculate_cached_route stores (line 248).
CacheableStatuses == {"success", "estimated"}
\* The statuses calculate_intelligent_route returns (lines 276, 291, 307, 323).
RouteStatuses == {"success", "estimated", "basic"}
Outcomes == RouteStatuses \cup {"cancelled"}

\* A route result: its status, and - to tell one computation's result from
\* another's - the caller that computed it and the time it was computed.
NoData == [status |-> "none", by |-> 0, at |-> 0]
\* What a call returned or raised: kind is "computed", "memory" or "firebase"
\* for a returned route (by names the computation it came from), else the
\* name of the exception.
NoResult == [kind |-> "none", by |-> 0]

VARIABLES
    now,            \* datetime.datetime.now(), in hours
    route_cache,    \* _route_cache: key -> [data, expires_at]
    firebase,       \* db.reference('cache/routes'): key -> [data, expires_at, created_at]
    db_up,          \* FALSE while every Firebase operation raises
    cache_locks,    \* _cache_locks: key -> the asyncio.Event registered (named by its creator)
    event_set,      \* asyncio.Event._value of the event each caller created
    pc,             \* position of each calculate_cached_route call
    key,            \* cache_key of each call
    waiting_on,     \* the event a call awaits or awaited at line 227 (0: it never waited)
    result,         \* what each call returned or raised
    compute_calls,  \* number of calculate_intelligent_route invocations per key
    failed,         \* per key: some computation ended 'basic' or was cancelled
    invalidated,    \* per key: clear_route_cache ran or a lookup met an expired entry
    clear_result,   \* value returned by the last clear_route_cache
    served          \* per key: the first 'success' or 'estimated' route a call
                    \* returned since the last clear_route_cache (NoData: none yet)

\* The cache key builder (trip_service.py lines 16-29), applied to two route
\* requests.
VARIABLES
    requests,       \* the two requests: start_name, end_name, vehicle, preference
    route_keys,     \* _get_route_cache_key of each request (<<>>: not built yet)
    shuffled_key    \* _get_cache_key of request 1's parameters, passed in another order

\* The daily hotspot pool (ai_service.py), one entry per request made to it.
VARIABLES
    daily_hotspot_pool_cache,   \* _daily_hotspot_pool_cache: cache key -> pool
    cache_timestamps,           \* _cache_timestamps: cache key -> utcnow() at _set_cache
    generation_locks,           \* _generation_locks: the dates that have an asyncio.Lock
    hotspot_pools,              \* db.reference('hotspot_pools'): date -> saved pool
    req_pc,                     \* position of each request
    req_op,                     \* the operation each request runs and, for a user's, the user
    req_date,                   \* today_str read when the request entered
    req_gen,                    \* today_str of the request's generate_daily_hotspot_pool
                                \* run (NoDate: it has not called it)
    req_result,                 \* what the request returned or raised
    req_entry,                  \* noted when the request entered: whether it suspended on
                                \* the lock and, for a force-regenerate, the requests
                                \* that had begun generating
    pool_invalidated,           \* per date: how its in-memory entry was last lost
    generation_failed           \* per date: the last generation failed, no call since

\* The photo search cache (gphotos_service.py), one entry per call of
\* search_photos_by_trip.
VARIABLES
    photo_cache,        \* _photo_cache: cache key -> [data, expires_at]
    photo_cache_locks,  \* _photo_cache_locks: cache key -> the asyncio.Event
                        \* registered (named by the call that created it)
    photo_pc,           \* position of each call
    photo_arg,          \* user_id and trip_id of each call
    photo_behind,       \* the calls that were still to run when the call arrived
    photo_result,       \* what each call returned or raised
    photo_invalidated   \* how a stored entry was last lost: cleared, or met expired

\* calculate_intelligent_route (trip_service.py lines 258-331), applied to
\* one route request.
VARIABLES
    route_request,      \* distance_km, vehicle and what the routing provider would do
    route_answer        \* what calculate_intelligent_route returned

routeVars == <<now, route_cache, firebase, db_up, cache_locks, event_set, pc, key,
               waiting_on, result, compute_calls, failed, invalidated, clear_result,
               served>>
keyVars == <<requests, route_keys, shuffled_key>>
poolVars == <<daily_hotspot_pool_cache, cache_timestamps, generation_locks,
              hotspot_pools, req_pc, req_op, req_date, req_gen, req_result,
              req_entry, pool_invalidated, generation_failed>>
photoVars == <<photo_cache, photo_cache_locks, photo_pc, photo_arg, photo_behind,
               photo_result, photo_invalidated>>
strategyVars == <<route_request, route_answer>>
vars == <<routeVars, keyVars, poolVars, photoVars, strategyVars>>

\* ---------------------------------------------------------------- helpers
\* Python's `del d[k]`.
DictDel(d, k) == [x \in DOMAIN d \ {k} |-> d[x]]

\* Python's `d[k] = v`.
DictPut(d, k, v) == [x \in DOMAIN d \cup {k} |-> IF x = k THEN v ELSE d[x]]

\* datetime.isoformat(): the timestamp as text, a date part and a time part.
isoformat(t) == <<t \div 24, t % 24>>

\* datetime.fromisoformat(): the text parsed back to a timestamp.
fromisoformat(s) == s[1] * 24 + s[2]

\* A Firebase call raises whenever the durable store is not operational.
db_raises(up) == ~up

\* Mutant of _get_cached_route: line 36 compares with <= instead of <.
get_cached_route_le(cache_key, rc, fb, t, up) ==
    IF cache_key \in DOMAIN rc /\ t <= rc[cache_key].expires_at
    THEN [data |-> rc[cache_key].data, tier |-> "memory", rc |-> rc, fb |-> fb,
          exc |-> "none"]
    ELSE [data |-> NoData, tier |-> "miss", rc |-> DictDel(rc, cache_key), fb |-> fb,
          exc |-> "none"]

\* Mutant of _get_cached_route: promotion (lines 53-56) restarts the TTL.
get_cached_route_extend(cache_key, rc, fb, t, up) ==
    IF cache_key \in DOMAIN rc /\ t < rc[cache_key].expires_at
    THEN [data |-> rc[cache_key].data, tier |-> "memory", rc |-> rc, fb |-> fb,
          exc |-> "none"]
    ELSE IF ~db_raises(up) /\ cache_key \in DOMAIN fb
            /\ t < fromisoformat(fb[cache_key].expires_at)
    THEN [data |-> fb[cache_key].data, tier |-> "firebase",
          rc |-> DictPut(rc, cache_key,
                         [data |-> fb[cache_key].data, expires_at |-> t + 24]),
          fb |-> fb, exc |-> "none"]
    ELSE [data |-> NoData, tier |-> "miss", rc |-> DictDel(rc, cache_key),
          fb |-> IF db_raises(up) THEN fb ELSE DictDel(fb, cache_key),
          exc |-> "none"]

\* Mutant of _get_cached_route: the try/except of lines 44-62 is missing, so
\* a Firebase error escapes.
get_cached_route_no_except(cache_key, rc, fb, t, up) ==
    IF cache_key \in DOMAIN rc /\ t < rc[cache_key].expires_at
    THEN [data |-> rc[cache_key].data, tier |-> "memory", rc |-> rc, fb |-> fb,
          exc |-> "none"]
    ELSE IF db_raises(up)
    THEN [data |-> NoData, tier |-> "miss", rc |-> DictDel(rc, cache_key), fb |-> fb,
          exc |-> "FirebaseError"]
    ELSE IF cache_key \in DOMAIN fb /\ t < fromisoformat(fb[cache_key].expires_at)
    THEN [data |-> fb[cache_key].data, tier |-> "firebase",
          rc |-> DictPut(rc, cache_key,
                         [data |-> fb[cache_key].data,
                          expires_at |-> fromisoformat(fb[cache_key].expires_at)]),
          fb |-> fb, exc |-> "none"]
    ELSE [data |-> NoData, tier |-> "miss", rc |-> DictDel(rc, cache_key),
          fb |-> DictDel(fb, cache_key), exc |-> "none"]

\* _get_cached_route (lines 31-64).  Returns the value found (NoData when
\* absent), the tier that served it, both tiers as the call leaves them, and
\* the exception that escapes the function ("none": none does).
get_cached_route(cache_key, rc, fb, t, up) ==
    LET inMem  == cache_key \in DOMAIN rc
        memHit == inMem /\ t < rc[cache_key].expires_at
        rc1    == IF inMem /\ ~memHit THEN DictDel(rc, cache_key) ELSE rc
        miss   == [data |-> NoData, tier |-> "miss", rc |-> rc1, fb |-> fb, exc |-> "none"]
    IN  IF memHit
        THEN [data |-> rc[cache_key].data, tier |-> "memory", rc |-> rc, fb |-> fb,
              exc |-> "none"]
        ELSE IF db_raises(up)
        THEN miss                                   \* except Exception: print
        ELSE IF cache_key \in DOMAIN fb
        THEN LET expires_at == fromisoformat(fb[cache_key].expires_at)
             IN  IF t < expires_at
                 THEN [data |-> fb[cache_key].data, tier |-> "firebase",
                       rc |-> DictPut(rc1, cache_key,
                                      [data |-> fb[cache_key].data,
                                       expires_at |-> expires_at]),
                       fb |-> fb, exc |-> "none"]
                 ELSE [miss EXCEPT !.fb = DictDel(fb, cache_key)]
        ELSE miss

\* Mutant of _cache_route: the in-memory store of line 76 is missing.
cache_route_no_memory(cache_key, route_data, hours, rc, fb, t, up) ==
    IF db_raises(up)
    THEN [rc |-> rc, fb |-> fb, exc |-> "none"]
    ELSE [rc |-> rc,
          fb |-> DictPut(fb, cache_key,
                         [data |-> route_data,
                          expires_at |-> isoformat(t + hours),
                          created_at |-> isoformat(t)]),
          exc |-> "none"]

\* _cache_route (lines 66-89).
cache_route(cache_key, route_data, hours, rc, fb, t, up) ==
    LET expires_at == t + hours
        rc1 == DictPut(rc, cache_key, [data |-> route_data, expires_at |-> expires_at])
    IN  IF db_raises(up)
        THEN [rc |-> rc1, fb |-> fb, exc |-> "none"]   \* except Exception: print
        ELSE [rc |-> rc1,
              fb |-> DictPut(fb, cache_key,
                             [data |-> route_data,
                              expires_at |-> isoformat(expires_at),
                              created_at |-> isoformat(t)]),
              exc |-> "none"]

\* Mutant of clear_route_cache: the Firebase delete of line 433 is missing.
clear_route_cache_memory_only(rc, fb, up) ==
    [rc |-> <<>>, fb |-> fb, ret |-> "message", exc |-> "none"]

\* clear_route_cache (lines 425-436).
clear_route_cache(rc, fb, up) ==
    IF db_raises(up)
    THEN [rc |-> <<>>, fb |-> fb, ret |-> "error", exc |-> "none"]
    ELSE [rc |-> <<>>, fb |-> <<>>, ret |-> "message", exc |-> "none"]

\* The finally block of calculate_cached_route (lines 253-256):
\* _cache_locks[cache_key].set(); del _cache_locks[cache_key].
\* Both statements look the key up, so a missing key raises KeyError.
release_lock(cache_key, locks, evs) ==
    IF cache_key \in DOMAIN locks
    THEN [locks |-> DictDel(locks, cache_key),
          evs   |-> [evs EXCEPT ![locks[cache_key]] = TRUE],
          exc   |-> "none"]
    ELSE [locks |-> locks, evs |-> evs, exc |-> "KeyError"]

\* An entry of either tier that a lookup at time t treats as expired.
ExpiredAt(cache_key, rc, fb, t) ==
    \/ cache_key \in DOMAIN rc /\ ~(t < rc[cache_key].expires_at)
    \/ cache_key \in DOMAIN fb /\ ~(t < fromisoformat(fb[cache_key].expires_at))

\* ------------------------------------------------------ cache key builder
\* A string is a sequence of text fragments: single characters and the words
\* that the key builder itself writes.  No fragment is the beginning of
\* another, so two sequences are equal exactly when their texts are equal.
Letters == {"x", "X"}
Whitespace == {" "}

\* The strings a request's fields are drawn from: empty, plain, padded and
\* upper-case, and one that contains the builder's own separators.
Texts == {<<>>, <<"x">>, <<" ", "X", " ">>, <<":", "vehicle", "=">>}

\* The parameter names _get_route_cache_key passes, in ascending string order.
ParamNames == <<"end", "preference", "start", "vehicle">>

\* Python's `a < b` on two parameter names.
StrLess(a, b) ==
    \E i, j \in DOMAIN ParamNames : ParamNames[i] = a /\ ParamNames[j] = b /\ i < j

\* str.lower().
lower(s) == [i \in DOMAIN s |-> IF s[i] = "X" THEN "x" ELSE s[i]]

RECURSIVE lstrip(_)
lstrip(s) == IF s # <<>> /\ Head(s) \in Whitespace THEN lstrip(Tail(s)) ELSE s

RECURSIVE rstrip(_)
rstrip(s) ==
    IF s # <<>> /\ s[Len(s)] \in Whitespace THEN rstrip(SubSeq(s, 1, Len(s) - 1)) ELSE s

\* str.strip(): leading and trailing whitespace removed.
strip(s) == rstrip(lstrip(s))

\* sep.join(parts).
RECURSIVE join(_, _)
join(sep, parts) ==
    IF parts = <<>> THEN <<>>
    ELSE IF Len(parts) = 1 THEN parts[1]
    ELSE parts[1] \o sep \o join(sep, Tail(parts))

\* sorted(kwargs.items()): the (name, value) pairs in ascending order of name
\* (the names of a dict are distinct, so the values never decide the order).
sorted_items(kwargs) == SortSeq(kwargs, LAMBDA a, b : StrLess(a[1], b[1]))

\* hashlib.md5(key_string.encode()).hexdigest(), taken to be collision-free:
\* the digest determines the string that was hashed.
md5_hexdigest(key_string) == [md5 |-> key_string]

\* _get_cache_key (lines 16-21); kwargs is the sequence of (name, value) pairs
\* in the order the caller wrote them.
get_cache_key(prefix, kwargs) ==
    LET sorted_params == sorted_items(kwargs)
        key_string == <<prefix, ":">> \o
            join(<<":">>, [i \in DOMAIN sorted_params |->
                              <<sorted_params[i][1], "=">> \o sorted_params[i][2]])
    IN  md5_hexdigest(key_string)

\* The keyword arguments _get_route_cache_key passes (lines 26-29).
route_kwargs(start_name, end_name, vehicle, preference) ==
    << <<"start", strip(lower(start_name))>>,
       <<"end", strip(lower(end_name))>>,
       <<"vehicle", lower(vehicle)>>,
       <<"preference", lower(preference)>> >>

\* _get_route_cache_key (lines 23-29).
get_route_cache_key(start_name, end_name, vehicle, preference) ==
    get_cache_key("route", route_kwargs(start_name, end_name, vehicle, preference))

\* The texts without separators: two spellings of one value.
PlainTexts == {<<"x">>, <<" ", "X", " ">>}

\* The requests explored: any text as start name and vehicle, a plain text
\* as end name and preference.
RouteRequests ==
    [start_name : Texts, end_name : PlainTexts, vehicle : Texts,
     preference : PlainTexts]

\* The orders in which four keyword arguments can be written.
ArgOrders == {o \in [1..4 -> 1..4] : \A i, j \in 1..4 : i # j => o[i] # o[j]}

\* No key built yet.
NoKey == [md5 |-> <<>>]

\* The key builder has not been given anything.
KeyIdle ==
    /\ requests = <<>>
    /\ route_keys = <<>>
    /\ shuffled_key = NoKey

\* ------------------------------------------------------ daily hotspot pool
NumRequests == 2
MaxHours == 1

CACHE_DURATION_MINUTES == 60
HOTSPOTS_PER_DAY == 4

\* Requests made to the hotspot endpoints, numbered in order of arrival.
Requests == 1..NumRequests
\* With the request that arrives after the clock has passed midnight.
AllRequests == 1..(NumRequests + 1)
Users == {"u1", "u2"}

\* datetime.date.today() at clock reading t (in hours).
today(t) == t \div 24

\* The calendar dates the clock reaches.
Dates == 0..(MaxTime \div 24)
NoDate == -1

\* What a request runs: GET /ai/hotspot/today for a user, or
\* POST /ai/hotspot/force-regenerate.
Ops == [name : {"get_user_daily_hotspot"}, user : Users]
           \cup {[name |-> "force_regenerate", user |-> "none"]}
NoOp == [name |-> "none", user |-> "none"]

\* For each of the day's candidates, whether its content generation succeeds.
ContentOutcomes == [0..(HOTSPOTS_PER_DAY - 1) -> BOOLEAN]

\* The outcomes explored where requests interleave: every candidate succeeds,
\* every candidate fails, all but the first succeed.
PoolOutcomes ==
    {ok \in ContentOutcomes :
        \/ \A i \in DOMAIN ok : ok[i]
        \/ \A i \in DOMAIN ok : ~ok[i]
        \/ \A i \in DOMAIN ok : ok[i] <=> i # 0}

NoHotspot == [place_name |-> <<>>, pool_index |-> -1, generated_by |-> 0,
              id_index |-> -1, date |-> NoDate]
NoOutcome == [kind |-> "none", source |-> "none", pool |-> <<>>, hotspot |-> NoHotspot]
NoEntry == [waited |-> FALSE, generated |-> {}]

\* _get_cache_key of ai_service.py (lines 22-24).
hotspot_cache_key(date_str) == <<"hotspot_pool_", date_str>>

\* _is_cache_valid (lines 26-35).
is_cache_valid(cache_key, ts, t) ==
    /\ cache_key \in DOMAIN ts
    /\ (t - ts[cache_key]) * 3600 < CACHE_DURATION_MINUTES * 60

\* _set_cache (lines 37-40).
set_cache(cache_key, data, cache, ts, t) ==
    [cache |-> DictPut(cache, cache_key, data), ts |-> DictPut(ts, cache_key, t)]

\* Mutant of _get_cache: an invalid entry loses its pool (line 49) but keeps
\* its timestamp (line 51 is missing).
get_cache_keep_timestamp(cache_key, cache, ts, t) ==
    IF is_cache_valid(cache_key, ts, t)
    THEN [data |-> IF cache_key \in DOMAIN cache THEN cache[cache_key] ELSE <<>>,
          cache |-> cache, ts |-> ts]
    ELSE [data |-> <<>>, cache |-> DictDel(cache, cache_key), ts |-> ts]

\* _get_cache (lines 42-53); data is <<>> where the code returns None.
get_cache(cache_key, cache, ts, t) ==
    IF is_cache_valid(cache_key, ts, t)
    THEN [data |-> IF cache_key \in DOMAIN cache THEN cache[cache_key] ELSE <<>>,
          cache |-> cache, ts |-> ts]
    ELSE [data |-> <<>>, cache |-> DictDel(cache, cache_key),
          ts |-> DictDel(ts, cache_key)]

\* The first 8 hex digits of md5(f"{user_id}_{date_str}") as an integer
\* (lines 70-74): a fixed number for each (user, date).
hash_int(user_id, date_str) ==
    ((IF user_id = "u1" THEN 7922 ELSE 15485) + 104729 * (date_str + 1)) % 65536

\* Mutant of _get_user_hotspot_index: the modulus is the nominal pool size.
get_user_hotspot_index_nominal(user_id, date_str, pool_size) ==
    hash_int(user_id, date_str) % HOTSPOTS_PER_DAY

\* _get_user_hotspot_index (lines 61-77).
get_user_hotspot_index(user_id, date_str, pool_size) ==
    hash_int(user_id, date_str) % pool_size

\* get_daily_destinations_pool (lines 202-222): the date-seeded sample of
\* HOTSPOTS_PER_DAY destinations; destination i of date d is named <<d, i>>.
destinations_pool(today_str) == [n \in 1..HOTSPOTS_PER_DAY |-> <<today_str, n - 1>>]

\* generate_and_save_daily_hotspot_content (lines 358-407), when it succeeds;
\* generated_by stands for the generated text and its generated_at stamp.
hotspot_content(place_name, pool_index, r) ==
    [place_name |-> place_name, pool_index |-> pool_index, generated_by |-> r]

\* Mutant of the loop of generate_daily_hotspot_pool: it stops at the first
\* candidate that fails.
RECURSIVE generate_loop_break(_, _, _, _)
generate_loop_break(destinations, i, content_ok, r) ==
    IF i = Len(destinations) \/ ~content_ok[i] THEN <<>>
    ELSE <<hotspot_content(destinations[i + 1], i, r)>>
             \o generate_loop_break(destinations, i + 1, content_ok, r)

\* The loop of generate_daily_hotspot_pool (lines 234-250), from candidate i.
RECURSIVE generate_loop(_, _, _, _)
generate_loop(destinations, i, content_ok, r) ==
    IF i = Len(destinations) THEN <<>>
    ELSE (IF content_ok[i]
          THEN <<hotspot_content(destinations[i + 1], i, r)>>
          ELSE <<>>)                               \* except Exception: print
             \o generate_loop(destinations, i + 1, content_ok, r)

\* generate_daily_hotspot_pool (lines 224-267), run by request r with
\* today_str as read at line 229.
generate_daily_hotspot_pool(today_str, content_ok, r, fb, up) ==
    LET hotspot_pool == generate_loop(destinations_pool(today_str), 0, content_ok, r)
    IN  IF hotspot_pool = <<>>
        THEN [exc |-> "Exception", pool |-> <<>>, db |-> fb]
        ELSE [exc |-> "none", pool |-> hotspot_pool,
              db |-> IF db_raises(up) THEN fb       \* except Exception: print
                     ELSE DictPut(fb, today_str, [hotspots |-> hotspot_pool])]

\* Mutant of clear_hotspot_cache: a date is ignored and everything is cleared.
clear_hotspot_cache_all(date_str, cache, ts) == [cache |-> <<>>, ts |-> <<>>]

\* clear_hotspot_cache (lines 434-449); NoDate stands for None.
clear_hotspot_cache(date_str, cache, ts) ==
    IF date_str # NoDate
    THEN [cache |-> DictDel(cache, hotspot_cache_key(date_str)),
          ts |-> DictDel(ts, hotspot_cache_key(date_str))]
    ELSE [cache |-> <<>>, ts |-> <<>>]

\* get_user_daily_hotspot after the pool is obtained (lines 336-356).
\* id_index is the index that ends the returned item's 'id' (line 349);
\* sequences being 1-based, item user_index is hotspot_pool[user_index + 1].
user_daily_hotspot(user_id, hotspot_pool, t) ==
    LET user_index == get_user_hotspot_index(user_id, today(t), Len(hotspot_pool))
    IN  IF user_index + 1 \in DOMAIN hotspot_pool
        THEN [kind |-> "ok",
              hotspot |-> [place_name |-> hotspot_pool[user_index + 1].place_name,
                           pool_index |-> hotspot_pool[user_index + 1].pool_index,
                           generated_by |-> hotspot_pool[user_index + 1].generated_by,
                           id_index |-> user_index, date |-> today(t)]]
        ELSE [kind |-> "IndexError",
              hotspot |-> [NoHotspot EXCEPT !.id_index = user_index]]

\* What a request that obtained hotspot_pool from `source` returns.
request_outcome(op, hotspot_pool, source, t) ==
    IF op.name = "force_regenerate"
    THEN [kind |-> "ok", source |-> source, pool |-> hotspot_pool, hotspot |-> NoHotspot]
    ELSE IF hotspot_pool = <<>>
    THEN [kind |-> "Exception", source |-> source, pool |-> <<>>, hotspot |-> NoHotspot]
    ELSE LET u == user_daily_hotspot(op.user, hotspot_pool, t)
         IN  [kind |-> u.kind, source |-> source, pool |-> hotspot_pool,
              hotspot |-> u.hotspot]

\* No request has been made to the hotspot endpoints.
PoolIdle ==
    /\ daily_hotspot_pool_cache = <<>>
    /\ cache_timestamps = <<>>
    /\ generation_locks = {}
    /\ hotspot_pools = <<>>
    /\ req_pc = [r \in AllRequests |-> "idle"]
    /\ req_op = [r \in AllRequests |-> NoOp]
    /\ req_date = [r \in AllRequests |-> NoDate]
    /\ req_gen = [r \in AllRequests |-> NoDate]
    /\ req_result = [r \in AllRequests |-> NoOutcome]
    /\ req_entry = [r \in AllRequests |-> NoEntry]
    /\ pool_invalidated = [d \in Dates |-> "no"]
    /\ generation_failed = [d \in Dates |-> FALSE]

\* ------------------------------------------------------ photo search cache
\* search_photos_by_trip (gphotos_service.py) runs on the same event loop.
\* Its only suspension point is the wait on a key's asyncio.Event (line 33):
\* _search_trip_photos and _process_trip_photos are declared async but contain
\* no await, the photo library being called through the blocking
\* googleapiclient (.execute(), line 131) and Firebase through the blocking
\* get_trip_by_id.  A call that registers an Event (line 37) therefore runs
\* to the end of its finally block (line 71) without yielding to the loop.
NumPhotoCalls == 3
MaxPhotoHours == 2

PhotoCacheHours == 2

\* Calls of search_photos_by_trip, numbered in order of arrival.
PhotoCalls == 1..NumPhotoCalls

\* User ids and trip ids, as sequences of text fragments.
PhotoUsers == {<<"a">>, <<"a", ":", "b">>}
PhotoTrips == {<<"c">>, <<"b", ":", "c">>}
PhotoArgs == [user_id : PhotoUsers, trip_id : PhotoTrips]
\* The calls user a:b can make.
OneUserArgs == {arg \in PhotoArgs : arg.user_id = <<"a", ":", "b">>}
NoArg == [user_id |-> <<>>, trip_id |-> <<>>]

\* db.reference('trips'): the stored trips, each with its owner's user_id.
trips ==
    [t \in PhotoTrips |->
        [user_id |-> IF t = <<"c">> THEN <<"a", ":", "b">> ELSE <<"a">>]]

\* A search result: the trip it is for, and - to tell one search's result
\* from another's - the user whose library was searched and the call that
\* searched it.
NoPhotos == [trip_id |-> <<>>, user_id |-> <<>>, by |-> 0]
\* What a call returned or raised (kind "hit": line 29, "waited": line 35,
\* "searched": line 67, else the exception), the entry's expires_at when it
\* came from the cache, whether the photo library was called (line 46), and
\* the Events the call registered (line 37) and set and removed (lines 70-71).
NoPhotoResult == [kind |-> "none", data |-> NoPhotos, at |-> 0, expires_at |-> 0,
                  searched |-> FALSE, registered |-> 0, released |-> 0]

\* _get_photo_cache_key (lines 14-16).
get_photo_cache_key(user_id, trip_id) ==
    md5_hexdigest(<<"photos", ":">> \o user_id \o <<":">> \o trip_id)

\* Mutant of the cache check: line 27 compares with <= instead of <.
photo_cache_hit_le(cache_key, cache, t) ==
    cache_key \in DOMAIN cache /\ t <= cache[cache_key].expires_at

\* The cache check of search_photos_by_trip (lines 25-27).
photo_cache_hit(cache_key, cache, t) ==
    cache_key \in DOMAIN cache /\ t < cache[cache_key].expires_at

\* Mutant of lines 62-65: the result is not stored.
photo_store_nothing(cache_key, photos, cache, t) == cache

\* Lines 62-65: the result is stored for 2 hours.
photo_store(cache_key, photos, cache, t) ==
    DictPut(cache, cache_key, [data |-> photos, expires_at |-> t + PhotoCacheHours])

\* Mutant of the finally block: the Event is set but stays registered.
photo_release_keep(cache_key, locks) ==
    [set |-> locks[cache_key], locks |-> locks]

\* The finally block (lines 69-71): the Event registered under the key is
\* set and removed.
photo_release(cache_key, locks) ==
    [set |-> locks[cache_key], locks |-> DictDel(locks, cache_key)]

\* Lines 37-71 of search_photos_by_trip, run by call c: the Event is
\* registered, the trip is fetched and checked, the photo library is
\* searched (found: the search succeeds), the result is stored, and the
\* finally block releases the Event.
search_photos_owner(c, arg, cache_key, found, cache, locks, t, up) ==
    LET registered == DictPut(locks, cache_key, c)
        fin == photo_release(cache_key, registered)
        photos == [trip_id |-> arg.trip_id, user_id |-> arg.user_id, by |-> c]
        raised(exc, called) ==
            [exc |-> exc, data |-> NoPhotos, cache |-> cache, locks |-> fin.locks,
             searched |-> called, released |-> fin.set]
    IN  IF db_raises(up)                       \* get_trip_by_id: raise e
        THEN raised("Exception", FALSE)
        ELSE IF arg.trip_id \notin DOMAIN trips
                \/ trips[arg.trip_id].user_id # arg.user_id
        THEN raised("ValueError", FALSE)       \* line 43
        ELSE IF ~found
        THEN raised("ValueError", TRUE)        \* line 147
        ELSE [exc |-> "none", data |-> photos,
              cache |-> photo_store(cache_key, photos, cache, t),
              locks |-> fin.locks, searched |-> TRUE, released |-> fin.set]

\* No call has been made to the photo endpoints.
PhotoIdle ==
    /\ photo_cache = <<>>
    /\ photo_cache_locks = <<>>
    /\ photo_pc = [c \in PhotoCalls |-> "idle"]
    /\ photo_arg = [c \in PhotoCalls |-> NoArg]
    /\ photo_behind = [c \in PhotoCalls |-> {}]
    /\ photo_result = [c \in PhotoCalls |-> NoPhotoResult]
    /\ photo_invalidated = "no"

\* ----------------------------------------------------- routing strategy
DirectLimitKm == 120
FallbackLimitKm == 300

\* distance_km as calculate_distance returns it (line 265), in whole
\* kilometres: values on both sides of every threshold of lines 270, 284,
\* 355 and 359.
Distances == {0, 60, 120, 121, 200, 201, 300, 301, 500, 501}
Vehicles == {"car", "bike", "bus"}
\* What calculate_route_with_osm does when it is called: it returns a
\* non-empty list of routes, or raises.
ProviderOutcomes == {"routes", "error"}
RouteInputs == [distance_km : Distances, vehicle : Vehicles,
                provider : ProviderOutcomes]
NoRouteInput == [distance_km |-> -1, vehicle |-> "none", provider |-> "none"]
\* A result of calculate_intelligent_route; provider_calls counts the calls
\* of calculate_route_with_osm it made, and route_type and avg_speed_kmh are
\* those of an estimated route.
NoAnswer == [status |-> "none", method |-> "none", provider_calls |-> 0,
             routes |-> 0, route_type |-> "none", avg_speed_kmh |-> 0]

\* create_estimated_route (lines 333-393): the route type and the average
\* speed in km/h.
create_estimated_route(vehicle, distance_km) ==
    LET speeds == IF vehicle = "bike"
                  THEN [highway |-> 70, city |-> 35, mountain |-> 25]
                  ELSE [highway |-> 80, city |-> 40, mountain |-> 30]
    IN  IF distance_km > 500
        THEN [route_type |-> "Long-distance highway route",
              avg_speed_kmh |-> (speeds.highway * 8) \div 10]
        ELSE IF distance_km > 200
        THEN [route_type |-> "Inter-city route",
              avg_speed_kmh |-> (speeds.highway * 7) \div 10]
        ELSE [route_type |-> "Regional route",
              avg_speed_kmh |-> (speeds.city * 12) \div 10]

\* Lines 275-282 and 290-297: the provider's routes are returned.
route_success(provider) ==
    [status |-> "success", method |-> "openrouteservice", provider_calls |-> 1,
     routes |-> 1,
     route_type |-> "none", avg_speed_kmh |-> 0]

\* Lines 302-314: the route is estimated.
route_estimated(vehicle, distance_km, calls) ==
    LET estimated_route == create_estimated_route(vehicle, distance_km)
    IN  [status |-> "estimated", method |-> "intelligent_estimation",
         provider_calls |-> calls, routes |-> 1,
         route_type |-> estimated_route.route_type,
         avg_speed_kmh |-> estimated_route.avg_speed_kmh]

\* Lines 316-331: the outer except.
route_basic(calls) ==
    [status |-> "basic", method |-> "fallback", provider_calls |-> calls,
     routes |-> 0, route_type |-> "none", avg_speed_kmh |-> 0]

\* Mutant of calculate_intelligent_route: the try/except of lines 286-300
\* is missing, so a provider failure reaches the outer except.
calculate_intelligent_route_no_fallback(distance_km, vehicle, provider) ==
    IF distance_km <= FallbackLimitKm
    THEN IF provider = "error" THEN route_basic(1) ELSE route_success(provider)
    ELSE route_estimated(vehicle, distance_km, 0)

\* calculate_intelligent_route (lines 258-331).
calculate_intelligent_route(distance_km, vehicle, provider) ==
    IF distance_km <= DirectLimitKm
    THEN IF provider = "error" THEN route_basic(1) ELSE route_success(provider)
    ELSE IF distance_km <= FallbackLimitKm /\ provider # "error"
    THEN route_success(provider)
    ELSE route_estimated(vehicle, distance_km,
                         IF distance_km <= FallbackLimitKm THEN 1 ELSE 0)

\* calculate_intelligent_route has not been called.
StrategyIdle ==
    /\ route_request = NoRouteInput
    /\ route_answer = NoAnswer

\* ------------------------------------------------------------------- Init
RouteInit ==
    /\ now = 0
    /\ route_cache = <<>>
    /\ firebase = <<>>
    /\ db_up \in BOOLEAN
    /\ cache_locks = <<>>
    /\ event_set = [p \in AllCallers |-> FALSE]
    /\ pc = [p \in AllCallers |-> "idle"]
    /\ key = [p \in AllCallers |-> "route_key"]
    /\ waiting_on = [p \in AllCallers |-> 0]
    /\ result = [p \in AllCallers |-> NoResult]
    /\ compute_calls = [k \in Keys |-> 0]
    /\ failed = [k \in Keys |-> FALSE]
    /\ invalidated = [k \in Keys |-> FALSE]
    /\ clear_result = "none"
    /\ served = [k \in Keys |-> NoData]

Init == RouteInit /\ KeyIdle /\ PoolIdle /\ PhotoIdle /\ StrategyIdle

\* ---------------------------------------------------------------- actions
\* Lines 233-245 of calculate_cached_route, run by caller p on the cache
\* state (rc, fb): look the key up; on a hit return it; on a miss register a
\* new Event under the key, replacing whatever is registered there, and start
\* calculate_intelligent_route, which suspends in its HTTP call.
CheckAndCompute(p, k, rc, fb) ==
    LET r == get_cached_route(k, rc, fb, now, db_up)
    IN  /\ route_cache' = r.rc
        /\ firebase' = r.fb
        /\ IF r.exc # "none"
           THEN /\ pc' = [pc EXCEPT ![p] = "done"]
                /\ result' = [result EXCEPT ![p] = [kind |-> r.exc, by |-> 0]]
                /\ UNCHANGED <<cache_locks, compute_calls, served>>
           ELSE IF r.data # NoData
           THEN /\ pc' = [pc EXCEPT ![p] = "done"]
                /\ result' = [result EXCEPT ![p] = [kind |-> r.tier, by |-> r.data.by]]
                /\ served' = [served EXCEPT ![k] = IF @ = NoData THEN r.data ELSE @]
                /\ UNCHANGED <<cache_locks, compute_calls>>
           ELSE /\ pc' = [pc EXCEPT ![p] = "computing"]
                /\ cache_locks' = DictPut(cache_locks, k, p)
                /\ compute_calls' = [compute_calls EXCEPT ![k] = @ + 1]
                /\ UNCHANGED <<result, served>>

\* A request enters calculate_cached_route (lines 222-245).
Start(p, k) ==
    /\ pc[p] = "idle"
    /\ \A q \in AllCallers : q < p => pc[q] # "idle"
    /\ key' = [key EXCEPT ![p] = k]
    /\ IF k \in DOMAIN cache_locks
       THEN /\ pc' = [pc EXCEPT ![p] = "waiting"]
            /\ waiting_on' = [waiting_on EXCEPT ![p] = cache_locks[k]]
            /\ UNCHANGED <<route_cache, firebase, cache_locks, result,
                           compute_calls, invalidated, served>>
       ELSE /\ CheckAndCompute(p, k, route_cache, firebase)
            /\ invalidated' = [invalidated EXCEPT ![k] =
                                 @ \/ ExpiredAt(k, route_cache, firebase, now)]
            /\ UNCHANGED waiting_on
    /\ UNCHANGED <<now, db_up, event_set, failed, clear_result>>
    /\ UNCHANGED <<keyVars, poolVars, photoVars, strategyVars>>

\* The awaited Event has been set: the caller resumes at line 229, looks the
\* key up and, on a miss, falls through to lines 233-245.
Wake(p) ==
    /\ pc[p] = "waiting"
    /\ event_set[waiting_on[p]]
    /\ LET r == get_cached_route(key[p], route_cache, firebase, now, db_up)
       IN  IF r.exc = "none" /\ r.data = NoData
           THEN CheckAndCompute(p, key[p], r.rc, r.fb)
           ELSE CheckAndCompute(p, key[p], route_cache, firebase)
    /\ invalidated' = [invalidated EXCEPT ![key[p]] =
                         @ \/ ExpiredAt(key[p], route_cache, firebase, now)]
    /\ UNCHANGED <<now, db_up, event_set, key, waiting_on, failed, clear_result>>
    /\ UNCHANGED <<keyVars, poolVars, photoVars, strategyVars>>

\* The task is cancelled while suspended in Event.wait() (line 227).
CancelWaiter(p) ==
    /\ pc[p] = "waiting"
    /\ pc' = [pc EXCEPT ![p] = "done"]
    /\ result' = [result EXCEPT ![p] = [kind |-> "CancelledError", by |-> 0]]
    /\ UNCHANGED <<now, route_cache, firebase, db_up, cache_locks, event_set, key,
                   waiting_on, compute_calls, failed, invalidated, clear_result,
                   served>>
    /\ UNCHANGED <<keyVars, poolVars, photoVars, strategyVars>>

\* calculate_intelligent_route ends (lines 245-256): it returns a route with
\* one of its three statuses, or the task is cancelled inside it.  A
\* cacheable result is stored, then the finally block runs.
Finish(p, outcome) ==
    /\ pc[p] = "computing"
    /\ LET k == key[p]
           route_result == [status |-> outcome, by |-> p, at |-> now]
           store == outcome \in CacheableStatuses
           c == IF store
                THEN cache_route(k, route_result, RouteCacheHours,
                                 route_cache, firebase, now, db_up)
                ELSE [rc |-> route_cache, fb |-> firebase, exc |-> "none"]
           f == release_lock(k, cache_locks, event_set)
       IN  /\ route_cache' = c.rc
           /\ firebase' = c.fb
           /\ cache_locks' = f.locks
           /\ event_set' = f.evs
           /\ failed' = [failed EXCEPT ![k] = @ \/ ~store]
           /\ result' = [result EXCEPT ![p] =
                 IF f.exc # "none" THEN [kind |-> f.exc, by |-> 0]
                 ELSE IF c.exc # "none" THEN [kind |-> c.exc, by |-> 0]
                 ELSE IF outcome = "cancelled"
                      THEN [kind |-> "CancelledError", by |-> 0]
                 ELSE [kind |-> "computed", by |-> p]]
           /\ served' = [served EXCEPT ![k] =
                 IF @ = NoData /\ store /\ f.exc = "none" /\ c.exc = "none"
                 THEN route_result ELSE @]
    /\ pc' = [pc EXCEPT ![p] = "done"]
    /\ UNCHANGED <<now, db_up, key, waiting_on, compute_calls, invalidated,
                   clear_result>>
    /\ UNCHANGED <<keyVars, poolVars, photoVars, strategyVars>>

\* DELETE /trips/cache/routes (api/routers/trips.py lines 182-191).
ClearRouteCache ==
    LET c == clear_route_cache(route_cache, firebase, db_up)
    IN  /\ route_cache' = c.rc
        /\ firebase' = c.fb
        /\ clear_result' = IF c.exc # "none" THEN "HTTP 500" ELSE c.ret
        /\ invalidated' = [k \in Keys |-> TRUE]
        /\ served' = [k \in Keys |-> NoData]
        /\ UNCHANGED <<now, db_up, cache_locks, event_set, pc, key, waiting_on,
                       result, compute_calls, failed>>
    /\ UNCHANGED <<keyVars, poolVars, photoVars, strategyVars>>

\* The wall clock advances; it is observed every half TTL, so that a lookup
\* can fall before and exactly at an entry's expiry time.
Tick ==
    /\ now + RouteCacheHours \div 2 <= MaxTime
    /\ now' = now + RouteCacheHours \div 2
    /\ UNCHANGED <<route_cache, firebase, db_up, cache_locks, event_set, pc, key,
                   waiting_on, result, compute_calls, failed, invalidated,
                   clear_result, served>>
    /\ UNCHANGED <<keyVars, poolVars, photoVars, strategyVars>>

\* The durable store goes down or comes back.
DbToggle ==
    /\ db_up' = ~db_up
    /\ UNCHANGED <<now, route_cache, firebase, cache_locks, event_set, pc, key,
                   waiting_on, result, compute_calls, failed, invalidated,
                   clear_result, served>>
    /\ UNCHANGED <<keyVars, poolVars, photoVars, strategyVars>>

Next ==
    \/ \E p \in Callers, k \in Keys : Start(p, k)
    \/ \E p \in Callers : Wake(p)
    \/ \E p \in Callers : CancelWaiter(p)
    \/ \E p \in Callers, o \in Outcomes : Finish(p, o)
    \/ ClearRouteCache
    \/ Tick
    \/ DbToggle

Spec == Init /\ [][Next]_vars

\* A burst of NumCallers + 1 requests for the key, all served within one
\* clock reading and without any cache clear.  Every step of it is a step of
\* the service.  The event loop resumes every task that is ready to run, and
\* the HTTP call of calculate_route_with_osm has a 30 s timeout, so a woken
\* waiter eventually runs and a computation eventually ends.
BurstNext ==
    \/ \E p \in AllCallers, k \in Keys : Start(p, k)
    \/ \E p \in AllCallers : Wake(p)
    \/ \E p \in AllCallers, o \in Outcomes : Finish(p, o)

BurstSpec ==
    /\ Init
    /\ [][BurstNext]_vars
    /\ \A p \in AllCallers : WF_vars(Wake(p))
    /\ \A p \in AllCallers : WF_vars(\E o \in Outcomes : Finish(p, o))

\* ------------------------------------------------- key builder, as a system
\* Two route requests arrive, with any texts in their fields.
KeyInit ==
    /\ RouteInit /\ db_up
    /\ PoolIdle /\ PhotoIdle /\ StrategyIdle
    /\ requests \in RouteRequests \X RouteRequests
    /\ route_keys = <<>>
    /\ shuffled_key = NoKey

\* calculate_cached_route line 222, for each of the two requests.
BuildRouteKeys ==
    /\ route_keys = <<>>
    /\ route_keys' = [n \in 1..2 |->
            get_route_cache_key(requests[n].start_name, requests[n].end_name,
                                requests[n].vehicle, requests[n].preference)]
    /\ UNCHANGED <<requests, shuffled_key, routeVars, poolVars,
                   photoVars, strategyVars>>

\* _get_cache_key called with request 1's four parameters written in the
\* order o.
BuildShuffledKey(o) ==
    /\ shuffled_key = NoKey
    /\ LET kw == route_kwargs(requests[1].start_name, requests[1].end_name,
                              requests[1].vehicle, requests[1].preference)
       IN  shuffled_key' = get_cache_key("route", [i \in 1..4 |-> kw[o[i]]])
    /\ UNCHANGED <<requests, route_keys, routeVars, poolVars,
                   photoVars, strategyVars>>

KeyNext ==
    \/ BuildRouteKeys
    \/ \E o \in ArgOrders : BuildShuffledKey(o)

KeySpec == KeyInit /\ [][KeyNext]_vars

\* ---------------------------------------------------- hotspot pool, as a system
\* asyncio.Lock serves its waiters in order of arrival, and acquire() takes a
\* free lock at once only when nobody waits for it.  The lock of date d is
\* therefore held by the request that is past acquire() and not yet out of
\* the `async with` block, and release() passes it to the waiter that
\* arrived first, which resumes in a later step.
LockHeld(d) ==
    \E q \in AllRequests : req_date[q] = d /\ req_pc[q] \in {"acquired", "generating"}

\* The request that release() of date d's lock wakes (0: nobody waits).
NextWaiter(d) ==
    LET waiters == {q \in AllRequests : req_date[q] = d /\ req_pc[q] = "waiting"}
    IN  IF waiters = {} THEN 0
        ELSE CHOOSE q \in waiters : \A w \in waiters : q <= w

\* Request r ends with result res; if it held the lock of date d, leaving the
\* `async with` block (line 286) releases it.
Leave(r, d, res, held) ==
    /\ req_result' = [req_result EXCEPT ![r] = res]
    /\ req_pc' = [q \in AllRequests |->
                    IF q = r THEN "done"
                    ELSE IF held /\ q = NextWaiter(d) THEN "acquired"
                    ELSE req_pc[q]]

\* The in-memory entry of date d is present but no longer valid.
PoolExpired(d, ts) ==
    hotspot_cache_key(d) \in DOMAIN ts /\ ~is_cache_valid(hotspot_cache_key(d), ts, now)

\* Lines 287-315 of get_or_generate_daily_hotspot_pool, run by request r (of
\* operation op, entered on today_str) holding the lock: the second look at
\* the memory cache, the look at Firebase, and on a miss the call of
\* generate_daily_hotspot_pool, which suspends in its first HTTP request.
Locked(r, op, today_str, cache, ts, fb) ==
    LET cache_key == hotspot_cache_key(today_str)
        g == get_cache(cache_key, cache, ts, now)
        found == /\ ~db_raises(db_up)                 \* except Exception: print
                 /\ today_str \in DOMAIN fb
                 /\ fb[today_str].hotspots # <<>>
    IN  /\ hotspot_pools' = fb
        /\ IF g.data # <<>>
           THEN /\ daily_hotspot_pool_cache' = g.cache
                /\ cache_timestamps' = g.ts
                /\ Leave(r, today_str, request_outcome(op, g.data, "memory", now), TRUE)
                /\ UNCHANGED req_gen
           ELSE IF found
           THEN LET c == set_cache(cache_key, fb[today_str].hotspots, g.cache, g.ts, now)
                IN  /\ daily_hotspot_pool_cache' = c.cache
                    /\ cache_timestamps' = c.ts
                    /\ Leave(r, today_str,
                             request_outcome(op, fb[today_str].hotspots, "firebase", now),
                             TRUE)
                    /\ UNCHANGED req_gen
           ELSE /\ daily_hotspot_pool_cache' = g.cache
                /\ cache_timestamps' = g.ts
                /\ req_pc' = [req_pc EXCEPT ![r] = "generating"]
                /\ req_gen' = [req_gen EXCEPT ![r] = today(now)]
                /\ UNCHANGED req_result

\* A request enters get_user_daily_hotspot or force_regenerate_daily_hotspot_pool
\* and runs to its first suspension point.  force-regenerate first clears
\* today's memory entry and deletes today's Firebase record (lines 456-467);
\* both then run get_or_generate_daily_hotspot_pool (lines 274-286).
EnterPool(r, op) ==
    /\ req_pc[r] = "idle"
    /\ \A q \in AllRequests : q < r => req_pc[q] # "idle"
    /\ LET today_str == today(now)
           cache_key == hotspot_cache_key(today_str)
           forced == op.name = "force_regenerate"
           c == IF forced
                THEN clear_hotspot_cache(today_str, daily_hotspot_pool_cache,
                                         cache_timestamps)
                ELSE [cache |-> daily_hotspot_pool_cache, ts |-> cache_timestamps]
           fb == IF forced /\ ~db_raises(db_up)       \* except Exception: print
                 THEN DictDel(hotspot_pools, today_str)
                 ELSE hotspot_pools
           g == get_cache(cache_key, c.cache, c.ts, now)
       IN  /\ req_op' = [req_op EXCEPT ![r] = op]
           /\ req_date' = [req_date EXCEPT ![r] = today_str]
           /\ req_entry' = [req_entry EXCEPT ![r] =
                 [waited |-> g.data = <<>> /\ LockHeld(today_str),
                  generated |-> IF forced
                                THEN {q \in AllRequests : req_gen[q] # NoDate}
                                ELSE {}]]
           /\ pool_invalidated' = [pool_invalidated EXCEPT ![today_str] =
                 IF forced THEN "cleared"
                 ELSE IF @ = "no" /\ PoolExpired(today_str, cache_timestamps)
                      THEN "expired" ELSE @]
           /\ generation_failed' = [generation_failed EXCEPT ![today_str] =
                 g.data = <<>> /\ LockHeld(today_str) /\ @]
           /\ IF g.data # <<>>
              THEN /\ daily_hotspot_pool_cache' = g.cache
                   /\ cache_timestamps' = g.ts
                   /\ hotspot_pools' = fb
                   /\ Leave(r, today_str, request_outcome(op, g.data, "memory", now),
                            FALSE)
                   /\ UNCHANGED <<generation_locks, req_gen>>
              ELSE /\ generation_locks' = generation_locks \cup {today_str}
                   /\ IF LockHeld(today_str)
                      THEN /\ daily_hotspot_pool_cache' = g.cache
                           /\ cache_timestamps' = g.ts
                           /\ hotspot_pools' = fb
                           /\ req_pc' = [req_pc EXCEPT ![r] = "waiting"]
                           /\ UNCHANGED <<req_gen, req_result>>
                      ELSE Locked(r, op, today_str, g.cache, g.ts, fb)
    /\ UNCHANGED <<routeVars, keyVars,
                   photoVars, strategyVars>>

\* A request that waited for the lock has been given it and resumes inside
\* the `async with` block (line 287).
AcquireLock(r) ==
    /\ req_pc[r] = "acquired"
    /\ Locked(r, req_op[r], req_date[r], daily_hotspot_pool_cache, cache_timestamps,
              hotspot_pools)
    /\ pool_invalidated' = [pool_invalidated EXCEPT ![req_date[r]] =
          IF @ = "no" /\ PoolExpired(req_date[r], cache_timestamps)
          THEN "expired" ELSE @]
    /\ generation_failed' = [generation_failed EXCEPT ![req_date[r]] = FALSE]
    /\ UNCHANGED <<generation_locks, req_op, req_date, req_entry, routeVars, keyVars,
                   photoVars, strategyVars>>

\* generate_daily_hotspot_pool ends for request r, the content generation of
\* candidate i having succeeded where content_ok[i]; the rest of
\* get_or_generate_daily_hotspot_pool follows (lines 315-325), and of the
\* operation that called it.
GenerationEnds(r, content_ok) ==
    /\ req_pc[r] = "generating"
    /\ LET g == generate_daily_hotspot_pool(req_gen[r], content_ok, r, hotspot_pools,
                                            db_up)
           c == set_cache(hotspot_cache_key(req_date[r]), g.pool,
                          daily_hotspot_pool_cache, cache_timestamps, now)
       IN  /\ hotspot_pools' = g.db
           /\ generation_failed' = [generation_failed EXCEPT ![req_date[r]] =
                                        g.exc # "none"]
           /\ IF g.exc # "none"
              THEN /\ Leave(r, req_date[r], [NoOutcome EXCEPT !.kind = g.exc], TRUE)
                   /\ UNCHANGED <<daily_hotspot_pool_cache, cache_timestamps>>
              ELSE /\ daily_hotspot_pool_cache' = c.cache
                   /\ cache_timestamps' = c.ts
                   /\ Leave(r, req_date[r],
                            request_outcome(req_op[r], g.pool, "generated", now), TRUE)
    /\ UNCHANGED <<generation_locks, req_op, req_date, req_gen, req_entry,
                   pool_invalidated, routeVars, keyVars,
                   photoVars, strategyVars>>

\* DELETE /ai/hotspot/cache (api/routers/ai.py lines 107-126), with a date or
\* without one.
ClearHotspotCache(date_str) ==
    /\ LET c == clear_hotspot_cache(date_str, daily_hotspot_pool_cache, cache_timestamps)
       IN  /\ daily_hotspot_pool_cache' = c.cache
           /\ cache_timestamps' = c.ts
    /\ pool_invalidated' = [d \in Dates |->
          IF date_str = NoDate \/ date_str = d THEN "cleared" ELSE pool_invalidated[d]]
    /\ UNCHANGED <<generation_locks, hotspot_pools, req_pc, req_op, req_date, req_gen,
                   req_result, req_entry, generation_failed, routeVars, keyVars,
                   photoVars, strategyVars>>

\* The wall clock advances by an hour, the lifetime of an in-memory pool
\* entry, within the day.
HourTick ==
    /\ now + 1 <= MaxHours
    /\ today(now + 1) = today(now)
    /\ now' = now + 1
    /\ UNCHANGED <<route_cache, firebase, db_up, cache_locks, event_set, pc, key,
                   waiting_on, result, compute_calls, failed, invalidated,
                   clear_result, served>>
    /\ UNCHANGED <<keyVars, poolVars, photoVars, strategyVars>>

PoolInit == RouteInit /\ KeyIdle /\ PoolIdle /\ PhotoIdle /\ StrategyIdle

PoolNext ==
    \/ \E r \in Requests, op \in Ops : EnterPool(r, op)
    \/ \E r \in Requests : AcquireLock(r)
    \/ \E r \in Requests, content_ok \in PoolOutcomes : GenerationEnds(r, content_ok)
    \/ \E d \in Dates \cup {NoDate} : ClearHotspotCache(d)
    \/ HourTick
    \/ DbToggle

PoolSpec == PoolInit /\ [][PoolNext]_vars

\* The requests of one clock reading with no admin clear, every combination
\* of content-generation successes and failures being possible.
GenNext ==
    \/ \E r \in Requests, op \in Ops : EnterPool(r, op)
    \/ \E r \in Requests : AcquireLock(r)
    \/ \E r \in Requests, content_ok \in ContentOutcomes : GenerationEnds(r, content_ok)
    \/ DbToggle

GenSpec == PoolInit /\ [][GenNext]_vars

\* The wall clock passes midnight: datetime.date.today() is the next date.
Midnight ==
    /\ 24 * (today(now) + 1) <= MaxTime
    /\ now' = 24 * (today(now) + 1)
    /\ UNCHANGED <<route_cache, firebase, db_up, cache_locks, event_set, pc, key,
                   waiting_on, result, compute_calls, failed, invalidated,
                   clear_result, served>>
    /\ UNCHANGED <<keyVars, poolVars, photoVars, strategyVars>>

\* Every candidate succeeds, or every candidate fails.
NightOutcomes ==
    {ok \in ContentOutcomes : (\A i \in DOMAIN ok : ok[i]) \/ (\A i \in DOMAIN ok : ~ok[i])}

\* The requests of the evening and of the morning after, Firebase being
\* reachable or not.
NightNext ==
    \/ \E r \in AllRequests, op \in Ops : EnterPool(r, op)
    \/ \E r \in AllRequests : AcquireLock(r)
    \/ \E r \in AllRequests, content_ok \in NightOutcomes : GenerationEnds(r, content_ok)
    \/ Midnight
    \/ DbToggle

NightSpec == PoolInit /\ [][NightNext]_vars

\* ------------------------------------------------------------ PhotoSpec
\* A request for search_photos_by_trip arrives: its task is queued on the
\* event loop behind the calls that have not run yet.
PhotoArrive(c, arg) ==
    /\ photo_pc[c] = "idle"
    /\ \A q \in PhotoCalls : q < c => photo_pc[q] # "idle"
    /\ photo_pc' = [photo_pc EXCEPT ![c] = "pending"]
    /\ photo_arg' = [photo_arg EXCEPT ![c] = arg]
    /\ photo_behind' = [photo_behind EXCEPT ![c] =
                           {q \in PhotoCalls : photo_pc[q] = "pending"}]
    /\ UNCHANGED <<photo_cache, photo_cache_locks, photo_result, photo_invalidated>>
    /\ UNCHANGED <<routeVars, keyVars, poolVars, strategyVars>>

\* The loop runs call c, the oldest queued one, up to its first suspension
\* point: a cache hit returns (lines 24-29); a call that finds an Event
\* registered under its key waits on it (lines 32-33); any other call runs
\* lines 37-71 to the end.
PhotoRun(c, found) ==
    /\ photo_pc[c] = "pending"
    /\ \A q \in PhotoCalls : q < c => photo_pc[q] # "pending"
    /\ LET cache_key == get_photo_cache_key(photo_arg[c].user_id, photo_arg[c].trip_id)
           o == search_photos_owner(c, photo_arg[c], cache_key, found, photo_cache,
                                    photo_cache_locks, now, db_up)
       IN  IF photo_cache_hit(cache_key, photo_cache, now)
           THEN /\ photo_pc' = [photo_pc EXCEPT ![c] = "done"]
                /\ photo_result' = [photo_result EXCEPT ![c] =
                      [NoPhotoResult EXCEPT !.kind = "hit",
                                            !.data = photo_cache[cache_key].data,
                                            !.at = now,
                                            !.expires_at = photo_cache[cache_key].expires_at]]
                /\ UNCHANGED <<photo_cache, photo_cache_locks, photo_invalidated>>
           ELSE IF cache_key \in DOMAIN photo_cache_locks
           THEN /\ photo_pc' = [photo_pc EXCEPT ![c] = "waiting"]
                /\ UNCHANGED <<photo_cache, photo_cache_locks, photo_result,
                               photo_invalidated>>
           ELSE /\ photo_pc' = [photo_pc EXCEPT ![c] = "done"]
                /\ photo_cache' = o.cache
                /\ photo_cache_locks' = o.locks
                /\ photo_result' = [photo_result EXCEPT ![c] =
                      [kind |-> IF o.exc = "none" THEN "searched" ELSE o.exc,
                       data |-> o.data, at |-> now, expires_at |-> 0,
                       searched |-> o.searched, registered |-> c,
                       released |-> o.released]]
                /\ photo_invalidated' =
                      IF cache_key \in DOMAIN photo_cache /\ photo_invalidated = "no"
                      THEN "expired" ELSE photo_invalidated
    /\ UNCHANGED <<photo_arg, photo_behind>>
    /\ UNCHANGED <<routeVars, keyVars, poolVars, strategyVars>>

\* DELETE /gphotos/cache/clear (api/routers/gphotos.py lines 167-181).
ClearPhotoCache ==
    /\ photo_cache' = <<>>
    /\ photo_invalidated' = "cleared"
    /\ UNCHANGED <<photo_cache_locks, photo_pc, photo_arg, photo_behind, photo_result>>
    /\ UNCHANGED <<routeVars, keyVars, poolVars, strategyVars>>

\* The wall clock advances by an hour, half the lifetime of a photo entry.
PhotoTick ==
    /\ now + 1 <= MaxPhotoHours
    /\ now' = now + 1
    /\ UNCHANGED <<route_cache, firebase, db_up, cache_locks, event_set, pc, key,
                   waiting_on, result, compute_calls, failed, invalidated,
                   clear_result, served>>
    /\ UNCHANGED <<keyVars, poolVars, photoVars, strategyVars>>

PhotoInit == RouteInit /\ KeyIdle /\ PoolIdle /\ PhotoIdle /\ StrategyIdle

\* The calls of one user, for a trip of theirs and for a trip of another
\* user, with the clock running and the cache being cleared.
PhotoNext ==
    \/ \E c \in PhotoCalls, arg \in OneUserArgs : PhotoArrive(c, arg)
    \/ \E c \in PhotoCalls, found \in BOOLEAN : PhotoRun(c, found)
    \/ ClearPhotoCache
    \/ PhotoTick

PhotoSpec == PhotoInit /\ [][PhotoNext]_vars

\* The calls of every user for every trip, within one clock reading.
PhotoKeyNext ==
    \/ \E c \in PhotoCalls, arg \in PhotoArgs : PhotoArrive(c, arg)
    \/ \E c \in PhotoCalls, found \in BOOLEAN : PhotoRun(c, found)

PhotoKeySpec == PhotoInit /\ [][PhotoKeyNext]_vars

\* --------------------------------------------------------- StrategySpec
\* calculate_intelligent_route is called with the request's endpoints and
\* vehicle and returns.
CalculateRoute ==
    /\ route_answer = NoAnswer
    /\ route_answer' = calculate_intelligent_route(route_request.distance_km,
                                                   route_request.vehicle,
                                                   route_request.provider)
    /\ UNCHANGED route_request
    /\ UNCHANGED <<routeVars, keyVars, poolVars, photoVars>>

StrategyInit ==
    /\ RouteInit /\ db_up
    /\ KeyIdle /\ PoolIdle /\ PhotoIdle
    /\ route_request \in RouteInputs
    /\ route_answer = NoAnswer

StrategyNext == CalculateRoute

StrategySpec == StrategyInit /\ [][StrategyNext]_vars

\* ================================================================= claims
HitKinds == {"memory", "firebase"}
RouteKinds == HitKinds \cup {"computed"}

\* The calls for key k that have entered calculate_cached_route.
Entered(k) == {p \in Callers : pc[p] # "idle" /\ key[p] = k}

\* Every call for k but the first arrived while a computation for k was
\* registered, i.e. the calls were made concurrently.
Concurrent(k) == \A p \in Entered(k) : p = 1 \/ waiting_on[p] # 0

\* One invocation of calculate_intelligent_route serves every call for k:
\* no call that waited computes, and all returned routes are one result.
Collapsed(k) ==
    /\ compute_calls[k] <= 1
    /\ \A p \in Entered(k) : waiting_on[p] # 0 => pc[p] # "computing"
    /\ \A p, q \in Entered(k) :
          (result[p].kind \in RouteKinds /\ result[q].kind \in RouteKinds)
              => result[p].by = result[q].by

\* C1 as stated: concurrent calls for a key with no valid cache entry, whose
\* computations all succeed ('success' or 'estimated'), cause exactly one
\* invocation of calculate_intelligent_route and all return the same result.
C1_CollapseAsStated ==
    \A k \in Keys : (Concurrent(k) /\ ~failed[k]) => Collapsed(k)

\* C1 amended: the same, provided no clear_route_cache call and no expiry of
\* the stored entry comes between the owner's store and a waiter's re-check.
C1_Collapse ==
    \A k \in Keys : (Concurrent(k) /\ ~failed[k] /\ ~invalidated[k]) => Collapsed(k)

\* C1 witness: three concurrent calls have all returned the first call's
\* result after a single computation.
C1_Witness ==
    /\ \A p \in Callers : pc[p] = "done" /\ result[p].by = 1
    /\ \A p \in Callers \ {1} : waiting_on[p] = 1 /\ result[p].kind \in HitKinds
    /\ \A k \in Keys : compute_calls[k] = 1 /\ ~failed[k] /\ ~invalidated[k]

\* The calls that are executing calculate_intelligent_route for key k.
InFlight(k) == {p \in AllCallers : pc[p] = "computing" /\ key[p] = k}

\* C2: in every reachable state, for every route cache key, at most one
\* execution of calculate_intelligent_route is in flight.
C2_AtMostOneInFlight ==
    \A k \in Keys : Cardinality(InFlight(k)) <= 1

\* Caller p's call ends in this step as an owner (it leaves line 245 through
\* the finally block).
OwnerEnds(p) == pc[p] = "computing" /\ pc'[p] = "done"

\* C3: whenever an owner's call ends (by a return, by the computation raising
\* or by cancellation) the event that owner registered has been set and the
\* key has no entry in _cache_locks; hence whenever no call is in progress
\* _cache_locks is empty.
C3_OwnerReleasesOwnEvent ==
    /\ [][\A p \in Callers :
            OwnerEnds(p) => (event_set'[p] /\ key[p] \notin DOMAIN cache_locks')]_vars
    /\ []((\A p \in Callers : pc[p] \in {"idle", "done"}) => cache_locks = <<>>)

\* C4: no call fails because of the in-flight bookkeeping: the release step
\* always finds the entry it sets and deletes, so no call raises KeyError.
C4_NoBookkeepingError ==
    \A p \in Callers : result[p].kind # "KeyError"

\* C5: with fair scheduling and computations that end, every caller that
\* suspends on a key's event is eventually woken and its call ends.
C5_WaitersWake ==
    \A p \in AllCallers : (pc[p] = "waiting") ~> (pc[p] = "done")

\* Every entry of either tier holds a 'success' or 'estimated' route.
StoredStatusesCacheable ==
    \A k \in Keys :
        /\ k \in DOMAIN route_cache => route_cache[k].data.status \in CacheableStatuses
        /\ k \in DOMAIN firebase => firebase[k].data.status \in CacheableStatuses

Looked(p) ==
    \/ pc[p] = "idle" /\ pc'[p] # "idle" /\ key'[p] \notin DOMAIN cache_locks
    \/ pc[p] = "waiting" /\ pc'[p] # "waiting" /\ result'[p].kind # "CancelledError"

MemValid(k) == k \in DOMAIN route_cache /\ now < route_cache[k].expires_at
MemExpired(k) == k \in DOMAIN route_cache /\ ~(now < route_cache[k].expires_at)
FbValid(k) == k \in DOMAIN firebase /\ now < fromisoformat(firebase[k].expires_at)
FbExpired(k) == k \in DOMAIN firebase /\ ~(now < fromisoformat(firebase[k].expires_at))

\* Each entry's expiry time is the time it was stored plus the TTL.
ExpiryIsStorePlusTTL ==
    \A k \in Keys :
        /\ k \in DOMAIN route_cache =>
              route_cache[k].expires_at = route_cache[k].data.at + RouteCacheHours
        /\ k \in DOMAIN firebase =>
              /\ fromisoformat(firebase[k].expires_at)
                    = firebase[k].data.at + RouteCacheHours
              /\ fromisoformat(firebase[k].created_at) = firebase[k].data.at

\* C7: an entry stored by _cache_route at time t with TTL T is returned by
\* _get_cached_route at every time before t+T (until a clear removes it) and
\* never at or after t+T, from the in-memory tier and from the durable one.
C7_TtlExpiry ==
    /\ []ExpiryIsStorePlusTTL
    /\ [][\A p \in Callers :
            (Looked(p) /\ result'[p].kind \in HitKinds) =>
                LET k == key'[p]
                IN  /\ k \in DOMAIN route_cache'
                    /\ route_cache'[k].data.by = result'[p].by
                    /\ now < route_cache'[k].data.at + RouteCacheHours]_vars
    /\ [][\A p \in Callers :
            Looked(p) =>
                LET k == key'[p]
                IN  /\ (k \in DOMAIN route_cache
                        /\ now < route_cache[k].data.at + RouteCacheHours)
                       => result'[p] = [kind |-> "memory", by |-> route_cache[k].data.by]
                    /\ (k \notin DOMAIN route_cache /\ db_up /\ k \in DOMAIN firebase
                        /\ now < firebase[k].data.at + RouteCacheHours)
                       => result'[p] = [kind |-> "firebase", by |-> firebase[k].data.by]]_vars
    /\ [][\A k \in Keys :
            /\ (k \in DOMAIN route_cache /\ k \notin DOMAIN route_cache')
                  => (ClearRouteCache \/ ~(now < route_cache[k].data.at + RouteCacheHours))
            /\ (k \in DOMAIN firebase /\ k \notin DOMAIN firebase')
                  => (ClearRouteCache \/ ~(now < firebase[k].data.at + RouteCacheHours))]_vars

\* C7 witness: call 1 stored its result, call 2 was served it from memory,
\* and call 3, arriving at the expiry time with no clear in between, was not
\* served it and computes.
C7_Witness ==
    \E k \in Keys :
        /\ result[1] = [kind |-> "computed", by |-> 1]
        /\ result[2] = [kind |-> "memory", by |-> 1]
        /\ pc[3] = "computing" /\ waiting_on[3] = 0
        /\ ~failed[k] /\ invalidated[k] /\ clear_result = "none"
        /\ now >= RouteCacheHours

\* C8: the two-tier lookup.  An expired in-memory entry is deleted and the
\* lookup goes on to the durable tier; an unexpired durable entry is returned
\* and copied into memory with its own expiry time; an expired durable entry
\* is deleted and the lookup returns absent; after a lookup of an expired key
\* with the durable store operational neither tier holds the key.
C8_TwoTierLookup ==
    [][\A p \in Callers :
         Looked(p) =>
            LET k == key'[p]
            IN  /\ MemExpired(k) => k \notin DOMAIN route_cache'
                /\ (~MemValid(k) /\ db_up /\ FbValid(k)) =>
                      /\ result'[p] = [kind |-> "firebase", by |-> firebase[k].data.by]
                      /\ route_cache'[k].data = firebase[k].data
                      /\ route_cache'[k].expires_at
                            = firebase[k].data.at + RouteCacheHours
                      /\ firebase' = firebase
                /\ (~MemValid(k) /\ db_up /\ FbExpired(k)) =>
                      /\ k \notin DOMAIN firebase'
                      /\ pc'[p] = "computing"
                /\ (~MemValid(k) /\ db_up /\ (MemExpired(k) \/ FbExpired(k))) =>
                      (k \notin DOMAIN route_cache' /\ k \notin DOMAIN firebase')]_vars

\* C8 witness: a call was served from the durable tier some time after the
\* entry was stored, and the in-memory copy carries the original expiry.
C8_Witness ==
    \E k \in Keys, p \in Callers :
        /\ result[p].kind = "firebase"
        /\ k \in DOMAIN route_cache
        /\ route_cache[k].data.by = result[p].by
        /\ route_cache[k].data.at < now
        /\ route_cache[k].expires_at = route_cache[k].data.at + RouteCacheHours

\* C9: while every durable-store operation raises, _get_cached_route,
\* _cache_route and clear_route_cache raise nothing and the in-memory tier
\* alone keeps serving: what _cache_route stored is returned until it expires.
C9_DurableOutage ==
    /\ [](clear_result # "HTTP 500"
            /\ \A p \in Callers : result[p].kind # "FirebaseError")
    /\ [][\A p \in Callers :
            (~db_up /\ Looked(p) /\ MemValid(key'[p])) =>
                result'[p] = [kind |-> "memory", by |-> route_cache[key'[p]].data.by]]_vars
    /\ [][\A p \in Callers, o \in CacheableStatuses :
            (~db_up /\ Finish(p, o)) =>
                /\ route_cache'[key[p]] =
                      [data |-> [status |-> o, by |-> p, at |-> now],
                       expires_at |-> now + RouteCacheHours]
                /\ firebase' = firebase]_vars
    /\ [][(~db_up /\ ClearRouteCache) =>
                (route_cache' = <<>> /\ clear_result' = "error")]_vars

\* C9 witness: with the durable store down and empty, call 1 stored its
\* result and call 2, arriving later, was served it from memory.
C9_Witness ==
    \E k \in Keys :
        /\ ~db_up /\ firebase = <<>> /\ clear_result = "none"
        /\ k \in DOMAIN route_cache /\ route_cache[k].data.by = 1
        /\ result[2] = [kind |-> "memory", by |-> 1] /\ waiting_on[2] = 0

\* C10: clear_route_cache with the durable store operational empties both
\* tiers, and lookups return absent for every key until a new result is
\* stored; when the durable delete fails the call still returns, reporting
\* the error, with the in-memory tier cleared.
C10_ClearEmptiesBothTiers ==
    /\ [][ClearRouteCache =>
            /\ route_cache' = <<>>
            /\ db_up => (firebase' = <<>> /\ clear_result' = "message")
            /\ ~db_up => (firebase' = firebase /\ clear_result' = "error")]_vars
    /\ [][\A p \in Callers :
            (Looked(p) /\ key'[p] \notin DOMAIN route_cache
                       /\ key'[p] \notin DOMAIN firebase)
                => (pc'[p] = "computing" /\ result'[p].kind \notin HitKinds)]_vars
    /\ [][\A k \in Keys :
            (k \notin DOMAIN route_cache /\ k \notin DOMAIN firebase
                /\ (k \in DOMAIN route_cache' \/ k \in DOMAIN firebase'))
                => \E p \in Callers :
                      /\ OwnerEnds(p)
                      /\ route_cache'[k].data.by = p
                      /\ route_cache'[k].data.at = now]_vars

\* C10 witness: an entry was stored in both tiers, a clear succeeded, both
\* tiers are empty, and the next call found nothing and computes.
C10_Witness ==
    \E k \in Keys :
        /\ clear_result = "message" /\ route_cache = <<>> /\ firebase = <<>>
        /\ result[1] = [kind |-> "computed", by |-> 1] /\ ~failed[k]
        /\ pc[2] = "computing" /\ waiting_on[2] = 0
        /\ now < RouteCacheHours

\* C11: after a call has returned a 'success' or 'estimated' result for a
\* key, every later call for the key within the 24-hour TTL of that result,
\* with no cache clear in between, returns that same result without invoking
\* calculate_intelligent_route.  (A later call that finds a computation
\* registered waits for it; the property constrains the calls that do not.)
C11_LaterCallServedFromCache ==
    [][\A p \in AllCallers, k \in Keys :
         (Start(p, k) /\ served[k] # NoData
                      /\ now < served[k].at + RouteCacheHours)
            => \/ pc'[p] = "waiting"
               \/ /\ pc'[p] = "done"
                  /\ result'[p].kind \in HitKinds
                  /\ result'[p].by = served[k].by
                  /\ compute_calls' = compute_calls]_vars

\* The value a string field has after case and whitespace normalization.
Normalized(s) == strip(lower(s))

\* Two requests are equal after normalization of each field.
SameAfterNormalization(a, b) ==
    /\ Normalized(a.start_name) = Normalized(b.start_name)
    /\ Normalized(a.end_name) = Normalized(b.end_name)
    /\ Normalized(a.vehicle) = Normalized(b.vehicle)
    /\ Normalized(a.preference) = Normalized(b.preference)

\* _get_cache_key's result does not depend on the order of its keyword
\* parameters.
KeyOrderIndependent ==
    (route_keys # <<>> /\ shuffled_key # NoKey) => shuffled_key = route_keys[1]

\* C12: _get_route_cache_key returns the same fingerprint for two requests
\* whose start name, end name, vehicle and preference are equal after case
\* and whitespace normalization of each value, and _get_cache_key's result
\* does not depend on the order in which its keyword parameters are supplied.
C12_KeyStability ==
    /\ (route_keys # <<>> /\ SameAfterNormalization(requests[1], requests[2]))
          => route_keys[1] = route_keys[2]
    /\ KeyOrderIndependent

\* C13: two route requests whose normalized (start, end, vehicle, preference)
\* tuples differ in some component get different cache keys.
C13_DistinctRequestsDistinctKeys ==
    (route_keys # <<>> /\ ~SameAfterNormalization(requests[1], requests[2]))
        => route_keys[1] # route_keys[2]

\* -------------------------------------------------------- daily hotspot pool
\* The requests that entered on date d.
PoolEntered(d) == {r \in Requests : req_pc[r] # "idle" /\ req_date[r] = d}

\* The requests that called generate_daily_hotspot_pool for date d, and
\* those whose call returned a pool.
Generations(d) == {r \in Requests : req_gen[r] = d}
Generated(d) == {r \in Generations(d) : req_result[r].source = "generated"}

\* No force-regenerate has been requested.
NoForce == \A r \in Requests : req_op[r].name # "force_regenerate"

\* Every request of date d but the first arrived while the lock was held,
\* i.e. the requests were made concurrently.
PoolConcurrent(d) == \A r \in PoolEntered(d) : r = 1 \/ req_entry[r].waited

\* Some generation for date d failed (every candidate failed).
GenerationFailed(d) ==
    \E r \in Generations(d) : req_result[r].kind = "Exception"

\* The requests of date d that returned a pool.
Returned(d) == {r \in PoolEntered(d) : req_result[r].kind = "ok"}

\* All requests of date d that returned a pool returned the same one.
SamePool(d) ==
    \A r, q \in PoolEntered(d) :
        (req_result[r].kind = "ok" /\ req_result[q].kind = "ok")
            => req_result[r].pool = req_result[q].pool

\* C14: concurrent callers of get_or_generate_daily_hotspot_pool
\* for a date with no valid in-memory entry and no durable record, whose
\* generation succeeds, invoke generate_daily_hotspot_pool exactly once and
\* all return the same pool.
C14_OneGeneration ==
    \A d \in Dates :
        (NoForce /\ PoolConcurrent(d) /\ ~GenerationFailed(d))
            => /\ Cardinality(Generations(d)) <= 1
               /\ Returned(d) # {} => Cardinality(Generations(d)) = 1
               /\ SamePool(d)

\* Absent an invalidation (clear_hotspot_cache, expiry of the in-memory
\* entry) between the generation's store and the waiters' second look at the
\* cache, the concurrent requests do share one generation.
OneGenerationUndisturbed ==
    \A d \in Dates :
        (NoForce /\ PoolConcurrent(d) /\ ~GenerationFailed(d)
                 /\ pool_invalidated[d] = "no")
            => /\ Cardinality(Generations(d)) <= 1
               /\ Returned(d) # {} => Cardinality(Generations(d)) = 1
               /\ SamePool(d)

\* C15: for a calendar date, absent force-regenerate, the daily pool is
\* successfully generated at most once and every call on that date returns
\* that same pool, whatever expires, is cleared or fails in the durable store.
C15_OnePoolPerDay ==
    \A d \in Dates :
        NoForce => (Cardinality(Generated(d)) <= 1 /\ SamePool(d))

\* The get_user_daily_hotspot calls of date d that returned an item.
Served(d) ==
    {r \in PoolEntered(d) : /\ req_op[r].name = "get_user_daily_hotspot"
                            /\ req_result[r].kind = "ok"
                            /\ req_result[r].hotspot.date = d}

\* C16: on a date, absent force-regenerate, two get_user_daily_hotspot calls
\* by the same user return the same pool item (same place, same pool index),
\* and calls by different users return items of one and the same pool.
C16_SameItemAllDay ==
    \A d \in Dates :
        NoForce =>
            \A r, q \in Served(d) :
                /\ req_op[r].user = req_op[q].user =>
                      /\ req_result[r].hotspot.place_name = req_result[q].hotspot.place_name
                      /\ req_result[r].hotspot.pool_index = req_result[q].hotspot.pool_index
                      /\ req_result[r].hotspot.id_index = req_result[q].hotspot.id_index
                /\ req_result[r].pool = req_result[q].pool

\* A force-regenerate request r returns in this step.
ForceReturns(r) ==
    /\ req_op[r].name = "force_regenerate"
    /\ req_pc[r] # "done" /\ req_pc'[r] = "done"
    /\ req_result'[r].kind = "ok"

\* C17: force_regenerate_daily_hotspot_pool removes today's in-memory entry
\* and (the durable store being operational) deletes today's durable record;
\* exactly one generation begins between its invocation and its return, the
\* pool it returns is that generation's, and when it returns the in-memory
\* tier and (the durable store being operational) the durable tier hold it.
C17_ForceRegenerates ==
    /\ [][\A r \in Requests :
            EnterPool(r, [name |-> "force_regenerate", user |-> "none"]) =>
                /\ hotspot_cache_key(req_date'[r]) \notin DOMAIN daily_hotspot_pool_cache'
                /\ db_up => req_date'[r] \notin DOMAIN hotspot_pools']_vars
    /\ [][\A r \in Requests :
            ForceReturns(r) =>
                LET pool == req_result'[r].pool
                    began == {q \in Requests : req_gen'[q] # NoDate}
                                \ req_entry[r].generated
                IN  /\ Cardinality(began) = 1
                    /\ pool[1].generated_by \in began
                    /\ daily_hotspot_pool_cache'[hotspot_cache_key(req_date[r])] = pool
                    /\ db_up => hotspot_pools'[req_date[r]].hotspots = pool]_vars

\* The places of a pool, and the candidates' pool_index values, in order.
PoolIndexes(pool) == [n \in DOMAIN pool |-> pool[n].pool_index]

\* The candidates that succeeded, in candidate order.
Succeeded(content_ok) ==
    SelectSeq([n \in 1..HOTSPOTS_PER_DAY |-> n - 1], LAMBDA i : content_ok[i])

\* C18: generate_daily_hotspot_pool returns exactly the items whose content
\* generation succeeded, in candidate order, whenever at least one candidate
\* succeeds; when every candidate fails it raises instead of returning an
\* empty pool.
C18_PoolIsTheSuccesses ==
    [][\A r \in Requests, content_ok \in ContentOutcomes :
         GenerationEnds(r, content_ok) =>
            IF Succeeded(content_ok) # <<>>
            THEN /\ req_result'[r].source = "generated"
                 /\ PoolIndexes(req_result'[r].pool) = Succeeded(content_ok)
                 /\ \A n \in DOMAIN req_result'[r].pool :
                       req_result'[r].pool[n] =
                           hotspot_content(<<req_gen[r], Succeeded(content_ok)[n]>>,
                                           Succeeded(content_ok)[n], r)
            ELSE /\ req_result'[r].kind = "Exception"
                 /\ req_result'[r].pool = <<>>
                 /\ daily_hotspot_pool_cache' = daily_hotspot_pool_cache
                 /\ hotspot_pools' = hotspot_pools]_vars

\* C18 witness: a generation in which some candidates failed returned the
\* two that succeeded, and another in which all failed raised.
C18_Witness ==
    \E r, q \in Requests :
        /\ req_result[r].source = "generated"
        /\ PoolIndexes(req_result[r].pool) = <<1, 3>>
        /\ req_gen[q] # NoDate /\ req_result[q].kind = "Exception"

\* C19: clear_hotspot_cache with a date removes that date's in-memory pool
\* and timestamp and leaves every other date's entry unchanged; with no date
\* it removes all in-memory entries; in both cases the durable records and
\* the generation locks are left unchanged.
C19_ClearFrame ==
    [][\A d \in Dates \cup {NoDate} :
         ClearHotspotCache(d) =>
            /\ IF d = NoDate
               THEN daily_hotspot_pool_cache' = <<>> /\ cache_timestamps' = <<>>
               ELSE /\ hotspot_cache_key(d) \notin DOMAIN daily_hotspot_pool_cache'
                    /\ hotspot_cache_key(d) \notin DOMAIN cache_timestamps'
                    /\ \A e \in Dates \ {d} :
                          LET k == hotspot_cache_key(e)
                          IN  /\ k \in DOMAIN daily_hotspot_pool_cache'
                                    <=> k \in DOMAIN daily_hotspot_pool_cache
                              /\ k \in DOMAIN cache_timestamps'
                                    <=> k \in DOMAIN cache_timestamps
                              /\ k \in DOMAIN daily_hotspot_pool_cache =>
                                    daily_hotspot_pool_cache'[k]
                                        = daily_hotspot_pool_cache[k]
                              /\ k \in DOMAIN cache_timestamps =>
                                    cache_timestamps'[k] = cache_timestamps[k]
            /\ hotspot_pools' = hotspot_pools
            /\ generation_locks' = generation_locks
            /\ req_pc' = req_pc]_vars

\* C19 witness: the entry of date 0 is still cached after a clear of date 1,
\* and the durable record and the lock of date 0 exist.
C19_Witness ==
    /\ pool_invalidated[1] = "cleared" /\ pool_invalidated[0] = "no"
    /\ hotspot_cache_key(0) \in DOMAIN daily_hotspot_pool_cache
    /\ hotspot_cache_key(0) \in DOMAIN cache_timestamps
    /\ 0 \in DOMAIN hotspot_pools
    /\ 0 \in generation_locks

\* C20: _get_user_hotspot_index is a function of (user_id, date, pool_size)
\* that returns, for every pool size P >= 1, an index i with 0 <= i < P: so
\* for every argument, and for every item a user was returned.
C20_IndexInRange ==
    /\ \A u \in Users, d \in Dates, P \in 1..HOTSPOTS_PER_DAY :
          get_user_hotspot_index(u, d, P) \in 0..(P - 1)
    /\ \A r \in Requests :
          /\ req_result[r].kind # "IndexError"
          /\ (req_op[r].name = "get_user_daily_hotspot" /\ req_result[r].kind = "ok") =>
                /\ req_result[r].hotspot.id_index \in 0..(Len(req_result[r].pool) - 1)
                /\ req_result[r].hotspot.id_index =
                      get_user_hotspot_index(req_op[r].user, req_result[r].hotspot.date,
                                             Len(req_result[r].pool))
    /\ \A r, q \in Requests :
          (/\ req_result[r].kind = "ok" /\ req_result[q].kind = "ok"
           /\ req_op[r] = req_op[q] /\ req_op[r].name = "get_user_daily_hotspot"
           /\ req_result[r].hotspot.date = req_result[q].hotspot.date
           /\ Len(req_result[r].pool) = Len(req_result[q].pool))
              => req_result[r].hotspot.id_index = req_result[q].hotspot.id_index

\* C20 witness: a user was given an item of a pool smaller than the nominal
\* size, at an index within it.
C20_Witness ==
    \E r \in Requests :
        /\ req_op[r].name = "get_user_daily_hotspot" /\ req_result[r].kind = "ok"
        /\ Len(req_result[r].pool) < HOTSPOTS_PER_DAY
        /\ req_result[r].hotspot.id_index \in 0..(Len(req_result[r].pool) - 1)
        /\ req_result[r].pool[req_result[r].hotspot.id_index + 1].place_name
              = req_result[r].hotspot.place_name

\* ------------------------------------------------- photo search claims
\* The calls made with the pair arg, those that called the photo library,
\* and those that returned a result.
PhotoEntered(arg) == {c \in PhotoCalls : photo_pc[c] # "idle" /\ photo_arg[c] = arg}
PhotoSearched(arg) == {c \in PhotoEntered(arg) : photo_result[c].searched}
PhotoReturned(arg) ==
    {c \in PhotoEntered(arg) : photo_result[c].kind \in {"hit", "waited", "searched"}}

\* The first call made with arg (0: none).
PhotoFirst(arg) ==
    IF PhotoEntered(arg) = {} THEN 0
    ELSE CHOOSE c \in PhotoEntered(arg) : \A q \in PhotoEntered(arg) : c <= q

\* The calls made with arg were made concurrently: every one but the first
\* arrived before the first had run.
PhotoTogether(arg) ==
    \A c \in PhotoEntered(arg) :
        c = PhotoFirst(arg) \/ PhotoFirst(arg) \in photo_behind[c]

\* Some call made with arg raised.
PhotoFailed(arg) ==
    \E c \in PhotoEntered(arg) : photo_result[c].kind \in {"ValueError", "Exception"}

\* One search served every call made with arg.
PhotoCollapsed(arg) ==
    /\ Cardinality(PhotoSearched(arg)) <= 1
    /\ PhotoReturned(arg) # {} => Cardinality(PhotoSearched(arg)) = 1
    /\ \A c, q \in PhotoReturned(arg) : photo_result[c].data = photo_result[q].data

\* C21 as stated: concurrent search_photos_by_trip calls for one (user,
\* trip) with no valid cache entry, whose search succeeds, run the
\* photo-library search exactly once and all return the same result.
C21_PhotoCollapseAsStated ==
    \A arg \in PhotoArgs :
        (/\ PhotoEntered(arg) # {} /\ PhotoTogether(arg) /\ ~PhotoFailed(arg)
         /\ photo_result[PhotoFirst(arg)].kind # "hit")
            => PhotoCollapsed(arg)

\* C21 amended: the same, provided no clear of the photo cache runs and the
\* stored entry does not expire between the calls; the calls run one after
\* another, so no call ever finds a registered Event or waits on one, and
\* the later callers return the stored result from the cache check.
C21_PhotoCollapse ==
    /\ \A arg \in PhotoArgs :
          (/\ PhotoEntered(arg) # {} /\ PhotoTogether(arg) /\ ~PhotoFailed(arg)
           /\ photo_result[PhotoFirst(arg)].kind # "hit"
           /\ photo_invalidated = "no")
              => /\ PhotoCollapsed(arg)
                 /\ \A c \in PhotoReturned(arg) \ {PhotoFirst(arg)} :
                       photo_result[c].kind = "hit"
    /\ \A c \in PhotoCalls : photo_pc[c] # "waiting" /\ photo_result[c].kind # "waited"

\* C21 witness: three calls for one trip were queued together; the first
\* searched and the other two returned its result from the cache.
C21_Witness ==
    /\ photo_invalidated = "no"
    /\ \A c \in 1..3 : photo_arg[c] = [user_id |-> <<"a", ":", "b">>, trip_id |-> <<"c">>]
    /\ photo_behind[2] = {1} /\ photo_behind[3] = {1, 2}
    /\ photo_result[1].kind = "searched"
    /\ \A c \in 2..3 : /\ photo_result[c].kind = "hit"
                       /\ photo_result[c].data = photo_result[1].data

\* C22: when an owner's photo search fails, the callers that were waiting
\* for it (queued behind it for the same user and trip) and find nothing
\* cached do not call the photo library themselves.
C22_WaitersDoNotRetry ==
    \A c, q \in PhotoCalls :
        (/\ q \in photo_behind[c] /\ photo_arg[q] = photo_arg[c]
         /\ photo_result[q].searched /\ photo_result[q].kind = "ValueError"
         /\ photo_pc[c] = "done" /\ photo_result[c].kind # "hit")
            => ~photo_result[c].searched

C28_OneSearchOwnEvent ==
    /\ photo_cache_locks = <<>>
    /\ \A c \in PhotoCalls :
          /\ photo_pc[c] # "waiting"
          /\ photo_result[c].registered # 0 =>
                /\ photo_pc[c] = "done"
                /\ photo_result[c].registered = c
                /\ photo_result[c].released = c

\* C28 witness: of two calls queued together for one trip the first's
\* search failed and the second's succeeded, each releasing its own Event.
C28_Witness ==
    /\ photo_arg[1] = photo_arg[2] /\ 1 \in photo_behind[2]
    /\ photo_result[1].kind = "ValueError" /\ photo_result[1].searched
    /\ photo_result[1].released = 1
    /\ photo_result[2].kind = "searched" /\ photo_result[2].released = 2

\* C29: a photo result cached for one (user_id, trip_id) pair is only ever
\* returned to calls made with that same pair.
C29_PhotoIsolation ==
    \A c \in PhotoCalls :
        photo_result[c].kind \in {"hit", "waited", "searched"} =>
            /\ photo_result[c].data.user_id = photo_arg[c].user_id
            /\ photo_result[c].data.trip_id = photo_arg[c].trip_id

\* ---------------------------------------------- routing strategy claim
\* C27: calculate_intelligent_route chooses its strategy from the
\* straight-line distance d: for d <= 120 it calls the routing provider, and
\* a provider failure yields status 'basic'; for 120 < d <= 300 it calls the
\* provider and on failure falls back to estimation with status
\* 'estimated'; for d > 300 it returns an 'estimated' result without calling
\* the provider at all.
C27_StrategyByDistance ==
    route_answer # NoAnswer =>
        LET d == route_request.distance_km
            failure == route_request.provider = "error"
        IN  /\ d <= DirectLimitKm =>
                  /\ route_answer.provider_calls = 1
                  /\ route_answer.status = IF failure THEN "basic" ELSE "success"
            /\ (DirectLimitKm < d /\ d <= FallbackLimitKm) =>
                  /\ route_answer.provider_calls = 1
                  /\ route_answer.status = IF failure THEN "estimated" ELSE "success"
                  /\ failure => route_answer.method = "intelligent_estimation"
            /\ d > FallbackLimitKm =>
                  /\ route_answer.provider_calls = 0
                  /\ route_answer.status = "estimated"
                  /\ route_answer.method = "intelligent_estimation"

\* C27 witness: at 200 km the provider was called, failed, and the route
\* was estimated.
C27_Witness ==
    /\ route_request.distance_km = 200 /\ route_request.provider = "error"
    /\ route_answer.status = "estimated" /\ route_answer.provider_calls = 1
    /\ route_answer.route_type = "Regional route"

\* C30: the in-memory pool map and the timestamp map always have the same
\* keys: every cached pool has a timestamp and every timestamp has a pool.
C30_SameKeySets ==
    DOMAIN daily_hotspot_pool_cache = DOMAIN cache_timestamps

\* An entry that expired or was cleared has been removed, and set again from
\* the Firebase record.
C30_Witness ==
    \E d \in Dates :
        /\ pool_invalidated[d] # "no"
        /\ hotspot_cache_key(d) \in DOMAIN daily_hotspot_pool_cache
        /\ \E r \in Requests : req_date[r] = d /\ req_result[r].source = "firebase"

\* Request r runs lines 287-315 in this step: it enters and takes the free
\* lock, or resumes with the lock handed to it.
RunsLocked(r) ==
    \/ req_pc[r] = "idle" /\ req_pc'[r] \in {"generating", "done"}
                          /\ req_result'[r].source # "memory"
    \/ req_pc[r] = "acquired" /\ req_pc'[r] # "acquired"

\* C26: when the in-memory entry of the date is not valid (expired or cleared)
\* and the date's Firebase record exists, get_or_generate_daily_hotspot_pool
\* returns the record's pool without generating and sets the in-memory entry
\* again with the present time; and a Firebase record disappears only in a
\* step of force-regenerate.
C26_DurableFallback ==
    /\ [][\A r \in Requests :
            LET d == req_date'[r]
                cache_key == hotspot_cache_key(d)
            IN  (/\ RunsLocked(r)
                 /\ ~is_cache_valid(cache_key, cache_timestamps, now)
                 /\ d \in DOMAIN hotspot_pools')
                => /\ req_pc'[r] = "done"
                   /\ req_gen'[r] = NoDate
                   /\ req_result'[r].source = "firebase"
                   /\ req_result'[r].pool = hotspot_pools'[d].hotspots
                   /\ cache_key \in DOMAIN daily_hotspot_pool_cache'
                   /\ daily_hotspot_pool_cache'[cache_key] = hotspot_pools'[d].hotspots
                   /\ cache_timestamps'[cache_key] = now]_vars
    /\ [][\A d \in DOMAIN hotspot_pools :
            d \notin DOMAIN hotspot_pools'
            => \E r \in Requests : /\ req_pc[r] = "idle" /\ req_pc'[r] # "idle"
                                    /\ req_op'[r].name = "force_regenerate"
                                    /\ req_date'[r] = d]_vars

\* The requests whose generate_daily_hotspot_pool is running for date d.
GenerationsInFlight(d) == {r \in AllRequests : req_pc[r] = "generating" /\ req_gen[r] = d}

\* The requests that are generating inside the lock of date d.
GeneratingUnderLock(d) ==
    {r \in AllRequests : req_pc[r] = "generating" /\ req_date[r] = d}

\* C24: for every date at most one execution of generate_daily_hotspot_pool
\* is in flight, whatever the interleaving of get and force-regenerate calls;
\* the callers that waited on a date's lock generate one at a time.
C24_OneGenerationInFlight ==
    \A d \in Dates :
        /\ Cardinality(GenerationsInFlight(d)) <= 1
        /\ Cardinality(GeneratingUnderLock(d)) <= 1

\* The lock of a date admits one generating request at a time.
OneGeneratingPerLock ==
    \A d \in Dates : Cardinality(GeneratingUnderLock(d)) <= 1

\* Request q gets past the memory cache and the lock in this step: it is the
\* call that follows whatever happened before for its date.
CallProceeds(q) ==
    \/ req_pc[q] = "idle" /\ req_pc'[q] \in {"generating", "done"}
    \/ req_pc[q] = "acquired" /\ req_pc'[q] # "acquired"

\* C25: when generation fails (no candidate yields a hotspot), the caller gets
\* the exception, no in-memory entry and no Firebase record is created for
\* the date, the date's lock is released (to the first waiter if there is
\* one), and the next call for the date generates again.
C25_FailedGeneration ==
    /\ [][\A r \in AllRequests, content_ok \in ContentOutcomes :
            (GenerationEnds(r, content_ok) /\ \A i \in DOMAIN content_ok : ~content_ok[i])
            => /\ req_result'[r].kind = "Exception"
               /\ req_pc'[r] = "done"
               /\ daily_hotspot_pool_cache' = daily_hotspot_pool_cache
               /\ hotspot_cache_key(req_date[r]) \notin DOMAIN daily_hotspot_pool_cache'
               /\ hotspot_pools' = hotspot_pools
               /\ \A q \in AllRequests \ {r} :
                      req_date[q] = req_date[r] => req_pc'[q] # "generating"
               /\ NextWaiter(req_date[r]) # 0
                      => req_pc'[NextWaiter(req_date[r])] = "acquired"]_vars
    /\ [][\A q \in AllRequests :
            (CallProceeds(q) /\ generation_failed[req_date'[q]])
            => req_pc'[q] = "generating"]_vars

====
